---- MODULE Spec2Model ----
(***************************************************************************)
(* State-machine model of the NVDA text bridge:                            *)
(*   addon/globalPlugins/nvdaTextBridge.py  (variant "plugin")             *)
(*   udp_to_websocket_bridge.py              (variant "bridge")            *)
(*                                                                         *)
(* The asyncio event loop is modelled as its FIFO ready queue (`ready`)    *)
(* run one iteration at a time: an iteration runs the callbacks that were  *)
(* queued when it began (`ntodo`), callbacks queued meanwhile wait for the *)
(* next one, and I/O is handled between iterations: the handlers of an I/O *)
(* event (a connection accepted or ended, a datagram) run where the loop   *)
(* polls.  Threads other than the loop's (the speech hook, terminate)      *)
(* interleave freely.                                                      *)
(***************************************************************************)
EXTENDS Integers, Sequences, FiniteSets, TLC

\* ------------------------------------------------------------- bounds

MaxConns == 2      \* connections that are ever accepted
MaxMsgs == 2       \* hook invocations / datagrams
MaxStops == 2      \* calls of terminate()
MaxStarts == 2     \* server threads that are ever started
MaxInits == 2      \* GlobalPlugin instances that are ever constructed

Conn == 1..MaxConns
Msg == 1..MaxMsgs

Variants == {"plugin", "bridge"}
InputKinds == {"text", "blank", "broken"}
DatagramKinds == {"valid", "invalid"}

VARIABLES
    variant,    \* which program runs
    thr,        \* position of the server thread (plugin) / of asyncio.run(main()) (bridge)
    loop,       \* the module-level `loop` is not None
    listening,  \* the WebSocket listening socket is open
    stopping,   \* the loop's _stopping flag, set by loop.stop()
    threadExc,  \* the server thread ended with an uncaught exception
    ready,      \* the loop's FIFO queue of callbacks
    ntodo,      \* callbacks left to run in the current loop iteration
    clients,    \* the module-level set `clients` / `connected_clients`
    conn,       \* per connection: "unborn" | "open" | "closed"
    hnd,        \* per connection: position of its handler coroutine
    stalled,    \* per connection: the peer does not read, drain() never completes
    bpc,        \* per message: position of its broadcast
    regAt,      \* per message: the registry at the instant broadcast's body ran
    sendSt,     \* per message and connection: state of the send
    wire,       \* per connection: the envelopes written to it, in order
    hookPc,     \* the producer thread: "idle", inside _hook_speak at "post" or "call",
                \* or back from it: "returned" | "raised"
    nextMsg,    \* messages so far: hook invocations that found text / datagrams
    origCalls,  \* calls of the original speak callback by the latest hook invocation
    hooked,     \* speech.speechFunctions.speak is _hook_speak
    termPc,     \* position of the thread running terminate()
    stops,      \* calls of terminate() that have returned
    reported,   \* "Server thread did not stop in time." was printed
    thr2,       \* position of a server thread started while the port is held
    ready2,     \* the queue of that thread's loop, which no thread ever runs
    starts,     \* server threads started so far
    inst,       \* GlobalPlugin instances constructed so far
    oldMsgs     \* messages of the instances before the latest one

vars == <<variant, thr, loop, listening, stopping, threadExc, ready, ntodo,
          clients, conn, hnd, stalled, bpc, regAt, sendSt, wire,
          hookPc, nextMsg, origCalls, hooked,
          termPc, stops, reported,
          thr2, ready2, starts, inst, oldMsgs>>

loopVars == <<ready, ntodo>>
threadVars == <<thr, loop, listening, stopping, threadExc>>
connVars == <<clients, conn, hnd, stalled>>
bcastVars == <<bpc, regAt, sendSt, wire>>
hookVars == <<hookPc, nextMsg, origCalls>>
termVars == <<hooked, termPc, stops, reported>>
lifeVars == <<thr2, ready2, starts, inst, oldMsgs>>

\* ------------------------------------------------------------- text

\* A character is one of these strings; a text is a sequence of characters.
Whitespace == {" "}

\* The text spoken by invocation m: m letters.
Word(m) == [i \in 1..m |-> "a"]

\* Items of a speech sequence: a str, a TextInfo, a command object (neither),
\* and a TextInfo whose .text property raises.
StrItem(t) == [kind |-> "str", text |-> t]
InfoItem(t) == [kind |-> "textinfo", text |-> t]
CmdItem == [kind |-> "command", text |-> <<>>]
BrokenItem == [kind |-> "brokeninfo", text |-> <<>>]

\* The speechSequence NVDA passes to the hook, by kind of input.
SpeechSequence(kind, m) ==
    CASE kind = "text" -> <<StrItem(<<" ">>), CmdItem, InfoItem(Word(m)), StrItem(<<" ">>)>>
      [] kind = "blank" -> <<CmdItem, StrItem(<<" ">>)>>
      [] OTHER -> <<StrItem(Word(m)), BrokenItem>>

RECURSIVE lstrip(_)
lstrip(t) == IF t # <<>> /\ Head(t) \in Whitespace THEN lstrip(Tail(t)) ELSE t

RECURSIVE rstrip(_)
rstrip(t) ==
    IF t # <<>> /\ t[Len(t)] \in Whitespace THEN rstrip(SubSeq(t, 1, Len(t) - 1)) ELSE t

strip(t) == rstrip(lstrip(t))

RAISED == <<"<exception>">>

\* text_parts after the loop over the first n items, or RAISED
RECURSIVE text_parts(_, _)
text_parts(seq, n) ==
    IF n = 0 THEN <<>>
    ELSE LET before == text_parts(seq, n - 1)
             item == seq[n]
         IN  IF before = RAISED THEN RAISED
             ELSE IF item.kind = "str" THEN before \o item.text
             ELSE IF item.kind = "textinfo" THEN before \o item.text
             ELSE IF item.kind = "brokeninfo" THEN RAISED
             ELSE before

get_text_from_speech_sequence(seq) ==
    LET parts == text_parts(seq, Len(seq))
    IN  IF parts = RAISED THEN RAISED ELSE strip(parts)

\* json.dumps({"type": "speech", "text": message})
json_dumps(message) == [type |-> "speech", text |-> message]

\* The payload of datagram m, as bytes.
DatagramData(kind, m) ==
    IF kind = "valid" THEN [i \in 1..m |-> 98] ELSE <<98, 255>>

CharOf(b) == IF b = 32 THEN " " ELSE IF b = 97 THEN "a" ELSE IF b = 98 THEN "b" ELSE "?"

\* data.decode('utf-8') on the bytes used here: ASCII maps to itself, a lone
\* byte >= 128 is no UTF-8 and raises UnicodeDecodeError.
decode(data) ==
    IF \E i \in 1..Len(data) : data[i] >= 128 THEN RAISED
    ELSE [i \in 1..Len(data) |-> CharOf(data[i])]

\* The text of message m as broadcast by the running program.
TextOf(m) ==
    IF variant = "plugin" THEN get_text_from_speech_sequence(SpeechSequence("text", m))
    ELSE decode(DatagramData("valid", m))

Envelope(m) == json_dumps(TextOf(m))

\* ------------------------------------------------------------- helpers

RECURSIVE SetToSeq(_)
SetToSeq(S) ==
    IF S = {} THEN <<>>
    ELSE LET x == CHOOSE y \in S : \A z \in S : y <= z
         IN  <<x>> \o SetToSeq(S \ {x})

Range(s) == {s[i] : i \in 1..Len(s)}

Count(e, s) == Cardinality({i \in 1..Len(s) : s[i] = e})

Cb(kind, a, b) == <<kind, a, b>>

\* ------------------------------------------------------------- initial state

\* The state after GlobalPlugin.__init__ (the hook is installed, start_server has
\* started the thread, which has not run yet), or as asyncio.run(main()) begins.
Init ==
    /\ variant \in Variants
    /\ thr = "new"
    /\ loop = FALSE
    /\ listening = FALSE
    /\ stopping = FALSE
    /\ threadExc = FALSE
    /\ ready = <<>>
    /\ ntodo = 0
    /\ clients = {}
    /\ conn = [c \in Conn |-> "unborn"]
    /\ hnd = [c \in Conn |-> "none"]
    /\ stalled = [c \in Conn |-> FALSE]
    /\ bpc = [m \in Msg |-> "none"]
    /\ regAt = [m \in Msg |-> {}]
    /\ sendSt = [m \in Msg |-> [c \in Conn |-> "none"]]
    /\ wire = [c \in Conn |-> <<>>]
    /\ hookPc = "idle"
    /\ nextMsg = 0
    /\ origCalls = 0
    /\ hooked = (variant = "plugin")
    /\ termPc = "idle"
    /\ stops = 0
    /\ reported = FALSE
    /\ thr2 = "none"
    /\ ready2 = <<>>
    /\ starts = 1
    /\ inst = 1
    /\ oldMsgs = 0

\* ------------------------------------------------------------- server thread

\* loop = asyncio.new_event_loop(); asyncio.set_event_loop(loop): the global
\* names a new loop, whose queue is empty.
new_event_loop ==
    /\ variant = "plugin"
    /\ thr = "new"
    /\ thr' = "binding"
    /\ loop' = TRUE
    /\ ready' = <<>>
    /\ ntodo' = 0
    /\ UNCHANGED <<variant, lifeVars, listening, stopping, threadExc, connVars,
                   bcastVars, hookVars, termVars>>

\* server = loop.run_until_complete(websockets.serve(...)), then run_forever();
\* on OSError the except clause prints, and the finally clause reads the local
\* `server`, which was never bound: UnboundLocalError ends the thread.
serve(portFree) ==
    /\ variant = "plugin"
    /\ thr = "binding"
    /\ IF portFree
         THEN /\ listening' = TRUE
              /\ thr' = "forever"
              /\ UNCHANGED threadExc
         ELSE /\ thr' = "dead"
              /\ threadExc' = TRUE
              /\ UNCHANGED listening
    /\ UNCHANGED <<variant, lifeVars, loop, stopping, loopVars, connVars, bcastVars,
                   hookVars, termVars>>

\* asyncio.run(main()): both sockets are bound, then main awaits a Future
\* forever; a bind error ends main, and line 92 logs it.
main(portFree) ==
    /\ variant = "bridge"
    /\ thr = "new"
    /\ IF portFree
         THEN listening' = TRUE /\ thr' = "forever"
         ELSE thr' = "dead" /\ UNCHANGED listening
    /\ UNCHANGED <<variant, lifeVars, loop, stopping, threadExc, loopVars, connVars,
                   bcastVars, hookVars, termVars>>

\* The loop is running: inside run_forever, or inside the
\* run_until_complete(server.wait_closed()) of the finally clause.
Running == thr \in {"forever", "wait_closed"}

\* Between two iterations: the loop polls for I/O.
Polling == Running /\ ntodo = 0 /\ ~stopping

\* An iteration begins: it will run the callbacks queued so far.
run_once ==
    /\ Polling
    /\ ready # <<>>
    /\ ntodo' = Len(ready)
    /\ UNCHANGED <<variant, lifeVars, threadVars, ready, connVars, bcastVars, hookVars, termVars>>

\* ------------------------------------------------------------- I/O events

\* Connections are accepted in the order of their numbers.
NextConn(c) == conn[c] = "unborn" /\ \A d \in Conn : d < c => conn[d] # "unborn"

\* A client connects and websockets runs the handler for it: server_handler /
\* websocket_handler up to its first suspension: the connection is added to the
\* registry and the handler waits for the connection to end.  `s` says whether
\* this peer reads what it is sent.
server_handler(c, s) ==
    /\ Polling
    /\ listening
    /\ NextConn(c)
    /\ conn' = [conn EXCEPT ![c] = "open"]
    /\ stalled' = [stalled EXCEPT ![c] = s]
    /\ clients' = clients \cup {c}
    /\ hnd' = [hnd EXCEPT ![c] = "reading"]
    /\ UNCHANGED <<variant, lifeVars, threadVars, loopVars, bcastVars, hookVars, termVars>>

\* A faulty gather, without return_exceptions: a child's exception is raised in
\* the awaiting broadcast.
gather_result_raising(outcomes) == IF "exc" \in outcomes THEN "raised" ELSE "returned"

\* asyncio.gather(*tasks, return_exceptions=True): what the awaiting broadcast
\* gets once every child is done, whatever the children's outcomes.
gather_result(outcomes) == "returned"

\* The position of broadcast m given the sends' states st: it stays suspended in
\* gather until no child is pending.
Gathered(m, st) ==
    IF bpc[m] = "gather" /\ \A c \in Conn : st[m][c] \notin {"queued", "draining"}
      THEN gather_result({st[m][c] : c \in regAt[m]})
      ELSE bpc[m]

\* A faulty end of connection, which never resumes the handler.
connection_closed_unnoticed(c) ==
    /\ Polling
    /\ conn[c] = "open"
    /\ conn' = [conn EXCEPT ![c] = "closed"]
    /\ LET st == [m \in Msg |-> [d \in Conn |->
                     IF d = c /\ sendSt[m][d] = "draining" THEN "exc" ELSE sendSt[m][d]]]
       IN  /\ sendSt' = st
           /\ bpc' = [m \in Msg |-> Gathered(m, st)]
    /\ UNCHANGED <<variant, lifeVars, threadVars, loopVars, clients, hnd, stalled, regAt, wire,
                   hookVars, termVars>>

\* The peer of c closes, or the connection breaks.  From here on the protocol
\* object is closed: a suspended drain() fails, and the handler's wait ends: its
\* resumption is queued.
connection_closed(c) ==
    /\ Polling
    /\ conn[c] = "open"
    /\ conn' = [conn EXCEPT ![c] = "closed"]
    /\ LET st == [m \in Msg |-> [d \in Conn |->
                     IF d = c /\ sendSt[m][d] = "draining" THEN "exc" ELSE sendSt[m][d]]]
       IN  /\ sendSt' = st
           /\ bpc' = [m \in Msg |-> Gathered(m, st)]
    /\ hnd' = [hnd EXCEPT ![c] = "woken"]
    /\ ready' = Append(ready, Cb("hwake", c, 0))
    /\ UNCHANGED <<variant, lifeVars, threadVars, ntodo, clients, stalled, regAt, wire,
                   hookVars, termVars>>

\* clients_to_send = list(connected_clients)
clients_to_send(S) == SetToSeq(S)

\* A datagram arrives: UDPServerProtocol.datagram_received decodes it, takes the
\* snapshot and makes one task per client.  A payload that is no UTF-8 raises in
\* decode: the loop logs it, nothing is sent.
datagram_received(kind) ==
    /\ variant = "bridge"
    /\ Polling
    /\ nextMsg < MaxMsgs
    /\ LET m == nextMsg + 1
       IN  IF decode(DatagramData(kind, m)) = RAISED
             THEN UNCHANGED <<nextMsg, bpc, regAt, sendSt, ready>>
             ELSE LET cs == clients_to_send(clients)
                  IN  /\ nextMsg' = m
                      /\ regAt' = [regAt EXCEPT ![m] = clients]
                      /\ bpc' = [bpc EXCEPT ![m] = "returned"]
                      /\ sendSt' = [sendSt EXCEPT ![m] = [c \in Conn |->
                             IF c \in Range(cs) THEN "queued" ELSE "none"]]
                      /\ ready' = ready \o [i \in 1..Len(cs) |-> Cb("send", m, cs[i])]
    /\ UNCHANGED <<variant, lifeVars, threadVars, ntodo, connVars, wire, hookPc, origCalls, termVars>>

\* ------------------------------------------------------------- callbacks

\* The protocol object of c is in state OPEN.
IsOpen(c) == conn[c] = "open"

\* The loop runs the callback at the head of its queue.
Runs(kind) == Running /\ ntodo > 0 /\ Head(ready)[1] = kind

\* ... and is done with it, having queued `new`.
Ran(new) == ready' = Tail(ready) \o new /\ ntodo' = ntodo - 1

\* run_coroutine_threadsafe's callback: ensure_future(broadcast(text)) makes the
\* task, whose first step is queued.
ensure_future ==
    /\ Runs("bcast_cb")
    /\ LET m == Head(ready)[2]
       IN  /\ bpc' = [bpc EXCEPT ![m] = "task"]
           /\ Ran(<<Cb("bcast", m, 0)>>)
    /\ UNCHANGED <<variant, lifeVars, threadVars, connVars, regAt, sendSt, wire, hookVars, termVars>>

\* A faulty snapshot, which misses its first member.
current_clients_skipping(S) == Tail(SetToSeq(S))

\* current_clients = list(clients)
current_clients(S) == SetToSeq(S)

\* tasks = [client.send(json_message) for client in current_clients];
\* asyncio.gather(*tasks): every send becomes a task of its own, queued at once.
gather(m, cs) == [i \in 1..Len(cs) |-> Cb("send", m, cs[i])]

\* async def broadcast(message), up to its await.
broadcast ==
    /\ Runs("bcast")
    /\ LET m == Head(ready)[2]
       IN  /\ regAt' = [regAt EXCEPT ![m] = clients]
           /\ IF clients # {}
                THEN LET tasks == gather(m, current_clients(clients))
                     IN  /\ bpc' = [bpc EXCEPT ![m] = "gather"]
                         /\ sendSt' = [sendSt EXCEPT ![m] = [c \in Conn |->
                                IF \E i \in 1..Len(tasks) : tasks[i][3] = c
                                  THEN "queued" ELSE "none"]]
                         /\ Ran(tasks)
                ELSE /\ bpc' = [bpc EXCEPT ![m] = "returned"]
                     /\ Ran(<<>>)
                     /\ UNCHANGED sendSt
    /\ UNCHANGED <<variant, lifeVars, threadVars, connVars, wire, hookVars, termVars>>

\* A faulty send, whose write blocks the loop's thread until the peer has read.
send_blocking ==
    /\ Runs("send")
    /\ LET m == Head(ready)[2]
           c == Head(ready)[3]
           st == [sendSt EXCEPT ![m][c] = IF IsOpen(c) THEN "ok" ELSE "exc"]
       IN  /\ IsOpen(c) => ~stalled[c]
           /\ sendSt' = st
           /\ wire' = IF IsOpen(c)
                        THEN [wire EXCEPT ![c] = Append(@, Envelope(m))]
                        ELSE wire
           /\ bpc' = [bpc EXCEPT ![m] = Gathered(m, st)]
    /\ Ran(<<>>)
    /\ UNCHANGED <<variant, lifeVars, threadVars, connVars, regAt, hookVars, termVars>>

\* A faulty send, whose failure path also unregisters the connection.
send_removing ==
    /\ Runs("send")
    /\ LET m == Head(ready)[2]
           c == Head(ready)[3]
           outcome == IF ~IsOpen(c) THEN "exc"
                      ELSE IF stalled[c] THEN "draining" ELSE "ok"
           st == [sendSt EXCEPT ![m][c] = outcome]
       IN  /\ sendSt' = st
           /\ wire' = IF IsOpen(c)
                        THEN [wire EXCEPT ![c] = Append(@, Envelope(m))]
                        ELSE wire
           /\ bpc' = [bpc EXCEPT ![m] = Gathered(m, st)]
           /\ clients' = IF IsOpen(c) THEN clients ELSE clients \ {c}
    /\ Ran(<<>>)
    /\ UNCHANGED <<variant, lifeVars, threadVars, conn, hnd, stalled, regAt, hookVars, termVars>>

\* The task of one send runs: client.send(json_message) (plugin), or
\* send_to_client(client, json_payload) (bridge).  On an open connection the
\* envelope is written to the transport and drain() is awaited; on a closed one
\* send raises ConnectionClosed, which gather collects (plugin) or
\* send_to_client catches and logs (bridge).
send ==
    /\ Runs("send")
    /\ LET m == Head(ready)[2]
           c == Head(ready)[3]
           outcome == IF ~IsOpen(c) THEN "exc"
                      ELSE IF stalled[c] THEN "draining" ELSE "ok"
           st == [sendSt EXCEPT ![m][c] = outcome]
       IN  /\ sendSt' = st
           /\ wire' = IF IsOpen(c)
                        THEN [wire EXCEPT ![c] = Append(@, Envelope(m))]
                        ELSE wire
           /\ bpc' = [bpc EXCEPT ![m] = Gathered(m, st)]
    /\ Ran(<<>>)
    /\ UNCHANGED <<variant, lifeVars, threadVars, connVars, regAt, hookVars, termVars>>

\* A faulty handler, whose finally clause leaves the connection in the registry.
handler_finally_keeping ==
    /\ Runs("hwake")
    /\ hnd' = [hnd EXCEPT ![Head(ready)[2]] = "done"]
    /\ Ran(<<>>)
    /\ UNCHANGED <<variant, lifeVars, threadVars, clients, conn, stalled, bcastVars, hookVars, termVars>>

\* The handler is resumed by the end of the connection: finally: clients.remove(websocket).
\* set.remove of a member removes it; of a non-member it raises KeyError, which
\* ends the handler with that exception.
handler_finally ==
    /\ Runs("hwake")
    /\ LET c == Head(ready)[2]
       IN  IF c \in clients
             THEN /\ clients' = clients \ {c}
                  /\ hnd' = [hnd EXCEPT ![c] = "done"]
             ELSE /\ hnd' = [hnd EXCEPT ![c] = "raised"]
                  /\ UNCHANGED clients
    /\ Ran(<<>>)
    /\ UNCHANGED <<variant, lifeVars, threadVars, conn, stalled, bcastVars, hookVars, termVars>>

\* loop.stop, as queued by terminate: the loop leaves after this iteration.
loop_stop ==
    /\ Runs("stop")
    /\ stopping' = TRUE
    /\ Ran(<<>>)
    /\ UNCHANGED <<variant, lifeVars, thr, loop, listening, threadExc, connVars, bcastVars,
                   hookVars, termVars>>

\* run_forever() returns: the iteration in which loop.stop ran is over.
run_forever_returns ==
    /\ thr = "forever"
    /\ stopping /\ ntodo = 0
    /\ stopping' = FALSE
    /\ thr' = "finally"
    /\ UNCHANGED <<variant, lifeVars, loop, listening, threadExc, loopVars, connVars, bcastVars,
                   hookVars, termVars>>

\* finally: `server` is bound and has close, so the thread runs
\* loop.run_until_complete(server.wait_closed()): the loop runs again, until a
\* future that only server.close() completes.  Nothing calls server.close().
finally_wait_closed ==
    /\ thr = "finally"
    /\ thr' = "wait_closed"
    /\ UNCHANGED <<variant, lifeVars, loop, listening, stopping, threadExc, loopVars, connVars,
                   bcastVars, hookVars, termVars>>

\* The loop is stopped inside run_until_complete: "Event loop stopped before
\* Future completed." is raised out of the finally clause and ends the thread.
wait_closed_stopped ==
    /\ thr = "wait_closed"
    /\ stopping /\ ntodo = 0
    /\ stopping' = FALSE
    /\ thr' = "dead"
    /\ threadExc' = TRUE
    /\ UNCHANGED <<variant, lifeVars, loop, listening, loopVars, connVars, bcastVars,
                   hookVars, termVars>>

\* ------------------------------------------------------------- later starts

\* self.server_thread: the thread the plugin started last.
server_thread == IF thr2 # "none" THEN thr2 ELSE thr

\* threading.Thread.is_alive(), by position.
is_alive(t) == t \notin {"none", "dead"}

\* The global `loop` names the loop of the second thread: that thread has run
\* line 80 after the first one did.
LoopIsSecond == thr2 \in {"binding", "dead"}

\* The server threads that are alive.
LiveThreads == Cardinality({t \in {1, 2} : is_alive(IF t = 1 THEN thr ELSE thr2)})

\* threading.Thread(target=start_websocket_server).start().  A thread that
\* follows one which ended at its bind, leaving no socket and no client, takes
\* that one's place; a thread started while the port is held (by a thread that
\* is alive, or by the socket a dead one left open) is the second thread, and
\* one such thread is followed.
StartThread ==
    /\ starts' = starts + 1
    /\ IF thr = "dead" /\ ~listening
         THEN thr' = "new" /\ threadExc' = FALSE /\ UNCHANGED thr2
         ELSE thr2 = "none" /\ thr2' = "new" /\ UNCHANGED <<thr, threadExc>>

\* A faulty start_server, which starts a thread whatever the earlier one does.
start_server_unguarded ==
    /\ variant = "plugin"
    /\ starts < MaxStarts
    /\ thr \in {"forever", "finally", "wait_closed", "dead"}
    /\ StartThread
    /\ UNCHANGED <<variant, ready2, inst, oldMsgs, loop, listening, stopping, loopVars,
                   connVars, bcastVars, hookVars, termVars>>

\* start_server(): a new thread only if there is none or the last one has ended.
start_server ==
    /\ variant = "plugin"
    /\ IF ~is_alive(server_thread)
         THEN /\ starts < MaxStarts
              /\ StartThread
              /\ UNCHANGED <<variant, ready2, inst, oldMsgs, loop, listening, stopping,
                             loopVars, connVars, bcastVars, hookVars, termVars>>
         ELSE UNCHANGED vars

\* A new GlobalPlugin is constructed after the earlier one was terminated:
\* __init__ installs the hook and, its server_thread being None, starts a
\* thread.  The earlier instance's thread has got past its bind by then.
GlobalPlugin_init ==
    /\ variant = "plugin"
    /\ inst < MaxInits
    /\ starts < MaxStarts
    /\ stops >= 1 /\ termPc = "idle"
    /\ thr \in {"forever", "finally", "wait_closed", "dead"}
    /\ inst' = inst + 1
    /\ oldMsgs' = nextMsg
    /\ hooked' = TRUE
    /\ StartThread
    /\ UNCHANGED <<variant, ready2, loop, listening, stopping, loopVars, connVars,
                   bcastVars, hookVars, termPc, stops, reported>>

\* The second thread runs line 80: the global `loop` now names its loop.
second_new_event_loop ==
    /\ thr2 = "new"
    /\ thr2' = "binding"
    /\ loop' = TRUE
    /\ UNCHANGED <<variant, ready2, starts, inst, oldMsgs, thr, listening, stopping,
                   threadExc, loopVars, connVars, bcastVars, hookVars, termVars>>

\* The second thread's bind fails, the port being held: OSError is printed, and
\* the finally clause ends the thread with UnboundLocalError.
second_serve ==
    /\ thr2 = "binding"
    /\ thr2' = "dead"
    /\ UNCHANGED <<variant, ready2, starts, inst, oldMsgs, threadVars, loopVars, connVars,
                   bcastVars, hookVars, termVars>>

\* ------------------------------------------------------------- the speech hook

\* A faulty handoff, which is a stack: the newest callback runs first.
call_soon_threadsafe_lifo(q, cb) == <<cb>> \o q

\* loop.call_soon_threadsafe(callback): the callback joins the loop's queue.
call_soon_threadsafe(q, cb) == Append(q, cb)

\* _hook_speak is called with a speech sequence and extracts its text.  An
\* exception of the extraction leaves the hook at once; with no text the hook
\* goes straight to the call of the original callback.  An invocation that finds
\* text is the next message.
hook_speak(kind) ==
    /\ hooked
    /\ hookPc \in {"idle", "returned", "raised"}
    /\ kind = "text" => nextMsg < MaxMsgs
    /\ origCalls' = 0
    /\ LET text == get_text_from_speech_sequence(SpeechSequence(kind, nextMsg + 1))
       IN  IF text = RAISED
             THEN hookPc' = "raised" /\ UNCHANGED nextMsg
             ELSE IF text # <<>>
             THEN hookPc' = "post" /\ nextMsg' = nextMsg + 1
             ELSE hookPc' = "call" /\ UNCHANGED nextMsg
    /\ UNCHANGED <<variant, lifeVars, threadVars, loopVars, connVars, bcastVars, termVars>>

\* if loop and clients: asyncio.run_coroutine_threadsafe(broadcast(text), loop);
\* the future it returns is dropped.
hook_post ==
    /\ hookPc = "post"
    /\ IF loop /\ clients # {}
         THEN /\ IF LoopIsSecond
                   THEN /\ ready2' = call_soon_threadsafe(ready2, Cb("bcast_cb", nextMsg, 0))
                        /\ UNCHANGED ready
                   ELSE /\ ready' = call_soon_threadsafe(ready, Cb("bcast_cb", nextMsg, 0))
                        /\ UNCHANGED ready2
              /\ bpc' = [bpc EXCEPT ![nextMsg] = "posted"]
         ELSE UNCHANGED <<ready, ready2, bpc>>
    /\ hookPc' = "call"
    /\ UNCHANGED <<variant, thr2, starts, inst, oldMsgs, threadVars, ntodo, connVars, regAt,
                   sendSt, wire, nextMsg, origCalls, termVars>>

\* The producer's thread evaluates the registry: in `if loop and clients:` the
\* set `clients` is read, without the lock, whenever `loop` is set.
HookReadsRegistry == hookPc = "post" /\ hookPc' = "call" /\ loop

\* A faulty hook, which waits for the result of the broadcast it posted.
original_speak_after_result ==
    /\ hookPc = "call"
    /\ nextMsg > 0 => bpc[nextMsg] \notin {"posted", "task", "gather"}
    /\ origCalls' = origCalls + 1
    /\ hookPc' = "returned"
    /\ UNCHANGED <<variant, lifeVars, threadVars, loopVars, connVars, bcastVars, nextMsg, termVars>>

\* return self._original_speak(speechSequence, *args, **kwargs)
original_speak ==
    /\ hookPc = "call"
    /\ origCalls' = origCalls + 1
    /\ hookPc' = "returned"
    /\ UNCHANGED <<variant, lifeVars, threadVars, loopVars, connVars, bcastVars, nextMsg, termVars>>

\* ------------------------------------------------------------- terminate

\* terminate(): the original speak is restored, and `if loop:`
\* loop.call_soon_threadsafe(loop.stop).  With no loop yet it returns at once.
terminate ==
    /\ variant = "plugin"
    /\ termPc = "idle"
    /\ stops < MaxStops
    /\ hooked' = FALSE
    /\ IF loop
         THEN /\ IF LoopIsSecond
                   THEN /\ ready2' = call_soon_threadsafe(ready2, Cb("stop", 0, 0))
                        /\ UNCHANGED ready
                   ELSE /\ ready' = call_soon_threadsafe(ready, Cb("stop", 0, 0))
                        /\ UNCHANGED ready2
              /\ termPc' = "join"
              /\ UNCHANGED stops
         ELSE /\ stops' = stops + 1
              /\ UNCHANGED <<ready, ready2, termPc>>
    /\ UNCHANGED <<variant, thr2, starts, inst, oldMsgs, threadVars, ntodo, connVars,
                   bcastVars, hookVars, reported>>

\* A faulty wait, join() with no timeout: it returns only when the thread has ended.
terminate_join_unbounded ==
    /\ termPc = "join"
    /\ server_thread = "dead"
    /\ termPc' = "idle"
    /\ stops' = stops + 1
    /\ UNCHANGED <<variant, lifeVars, threadVars, loopVars, connVars, bcastVars, hookVars, hooked,
                   reported>>

\* if is_alive(): join(timeout=5); if is_alive(): print(...).  join returns when
\* the thread has ended, or when the 5 seconds are over.
terminate_join ==
    /\ termPc = "join"
    /\ \/ server_thread = "dead" /\ UNCHANGED reported
       \/ server_thread # "dead" /\ reported' = TRUE
    /\ termPc' = "idle"
    /\ stops' = stops + 1
    /\ UNCHANGED <<variant, lifeVars, threadVars, loopVars, connVars, bcastVars, hookVars, hooked>>

\* ------------------------------------------------------------- specification

\* The loop's thread while the server is in service ...
ServiceLoop ==
    \/ new_event_loop
    \/ \E p \in BOOLEAN : serve(p)
    \/ \E p \in BOOLEAN : main(p)
    \/ run_once
    \/ ensure_future
    \/ broadcast
    \/ send
    \/ handler_finally

\* ... and on its way out, once loop.stop has been queued.
StopPath ==
    \/ loop_stop
    \/ run_forever_returns
    \/ finally_wait_closed
    \/ wait_closed_stopped

LoopThread == ServiceLoop \/ StopPath

Environment ==
    \/ \E c \in Conn, s \in BOOLEAN : server_handler(c, s)
    \/ \E c \in Conn : connection_closed(c)
    \/ \E k \in DatagramKinds : datagram_received(k)

HookThread ==
    \/ \E k \in InputKinds : hook_speak(k)
    \/ hook_post
    \/ original_speak

TerminateThread ==
    \/ terminate
    \/ terminate_join

Next == LoopThread \/ Environment \/ HookThread \/ TerminateThread

Spec == Init /\ [][Next]_vars

\* The program in service, from its start until terminate is called.  The loop's
\* thread and the producer's thread are threads of the operating system: each
\* takes its next step when it has one (the steps of one thread exclude each
\* other, so fairness is stated step by step).  Nothing is assumed of when the
\* hook is called, of the clients or of the datagrams.
ServiceNext == ServiceLoop \/ Environment \/ HookThread

LoopFairness ==
    /\ WF_vars(new_event_loop)
    /\ WF_vars(\E p \in BOOLEAN : serve(p))
    /\ WF_vars(\E p \in BOOLEAN : main(p))
    /\ WF_vars(run_once)
    /\ WF_vars(ensure_future)
    /\ WF_vars(broadcast)
    /\ WF_vars(send)
    /\ WF_vars(handler_finally)

HookFairness == WF_vars(hook_post) /\ WF_vars(original_speak)

FairSpec == Init /\ [][ServiceNext]_vars /\ LoopFairness /\ HookFairness

\* The plugin alone.
PluginInit == Init /\ variant = "plugin"

\* The plugin's server and its shutdown, without speech: clients come and go,
\* terminate is called.  The server thread takes its steps, and a thread inside
\* terminate gets out of its bounded wait; nothing is assumed of when terminate
\* is called, nor of the clients.
StopNext ==
    \/ new_event_loop
    \/ \E p \in BOOLEAN : serve(p)
    \/ run_once
    \/ handler_finally
    \/ StopPath
    \/ \E c \in Conn, s \in BOOLEAN : server_handler(c, s)
    \/ \E c \in Conn : connection_closed(c)
    \/ TerminateThread

StopFairness ==
    /\ WF_vars(new_event_loop)
    /\ WF_vars(\E p \in BOOLEAN : serve(p))
    /\ WF_vars(run_once)
    /\ WF_vars(handler_finally)
    /\ WF_vars(loop_stop)
    /\ WF_vars(run_forever_returns)
    /\ WF_vars(finally_wait_closed)
    /\ WF_vars(wait_closed_stopped)
    /\ WF_vars(terminate_join)

StopFairSpec == PluginInit /\ [][StopNext]_vars /\ StopFairness

\* The plugin over its life: instances are constructed and terminated, threads
\* are started again.  Clients read what they are sent, and speech has text.
RestartNext ==
    \/ new_event_loop
    \/ \E p \in BOOLEAN : serve(p)
    \/ run_once
    \/ ensure_future
    \/ broadcast
    \/ send
    \/ handler_finally
    \/ StopPath
    \/ \E c \in Conn : server_handler(c, FALSE)
    \/ \E c \in Conn : connection_closed(c)
    \/ hook_speak("text")
    \/ hook_post
    \/ original_speak
    \/ TerminateThread
    \/ start_server
    \/ GlobalPlugin_init
    \/ second_new_event_loop
    \/ second_serve

RestartSpec == PluginInit /\ [][RestartNext]_vars

TypeOK ==
    /\ ntodo \in 0..Len(ready)
    /\ clients \subseteq Conn
    /\ nextMsg \in 0..MaxMsgs

\* ------------------------------------------------------------- properties

\* broadcast's body has run for message m (its snapshot is taken).
Called(m) == bpc[m] \in {"gather", "returned", "raised"}

\* ... and every send it dispatched has run.
Settled(m) == Called(m) /\ \A c \in Conn : sendSt[m][c] # "queued"

\* The envelopes of message m written to connection c.
Sent(m, c) == Count(Envelope(m), wire[c])

\* C1 as stated: once a broadcast and its sends have run, every connection that
\* was in the registry when broadcast was called has received exactly one envelope
\* with the text, and every other connection none.
C1_EveryRegisteredReceivesOne ==
    \A m \in Msg : Settled(m) =>
        \A c \in Conn : Sent(m, c) = IF c \in regAt[m] THEN 1 ELSE 0

\* C1 as amended: exactly the connections of the registry at the instant of the
\* call get a send, each one send; a connection never gets the envelope twice; it
\* gets it exactly once when its send ran on a connection that was still open,
\* and not at all when the connection had closed by then, or when it was not in
\* the snapshot (N = 0 included).
C1_SnapshotSentOnceEach ==
    \A m \in Msg : \A c \in Conn :
        /\ Sent(m, c) <= 1
        /\ Called(m) => (sendSt[m][c] # "none" <=> c \in regAt[m])
        /\ ~Called(m) => sendSt[m][c] = "none"
        /\ sendSt[m][c] \in {"ok", "draining"} => Sent(m, c) = 1
        /\ sendSt[m][c] \in {"none", "queued"} => Sent(m, c) = 0
        /\ sendSt[m][c] = "exc" => conn[c] = "closed"
        /\ (Settled(m) /\ c \in regAt[m] /\ IsOpen(c)) => Sent(m, c) = 1

\* C1's case: a broadcast to two registered connections, both served once.
C1_Witness ==
    \E m \in Msg :
        /\ Settled(m)
        /\ Cardinality(regAt[m]) = 2
        /\ \A c \in regAt[m] : Sent(m, c) = 1

\* C2: when the send to a snapshotted connection fails, every other connection
\* of the snapshot still has its send, and that send, once it has run, has
\* delivered the envelope unless that connection is itself closed; and the
\* broadcast never raises: once no child is pending it has returned.
C2_FailureIsolated ==
    \A m \in Msg :
        /\ bpc[m] # "raised"
        /\ (bpc[m] = "gather" => \E c \in Conn : sendSt[m][c] \in {"queued", "draining"})
        /\ \A c \in Conn : sendSt[m][c] = "exc" =>
               \A d \in regAt[m] \ {c} :
                   /\ sendSt[m][d] # "none"
                   /\ sendSt[m][d] = "exc" => conn[d] = "closed"
                   /\ sendSt[m][d] \in {"ok", "draining"} => Sent(m, d) = 1
                   /\ (Settled(m) /\ IsOpen(d)) => Sent(m, d) = 1

\* C2's case: one send of a broadcast failed, another delivered, and the
\* broadcast returned.
C2_Witness ==
    \E m \in Msg : \E c, d \in regAt[m] :
        /\ c # d
        /\ sendSt[m][c] = "exc"
        /\ sendSt[m][d] = "ok"
        /\ Sent(m, d) = 1
        /\ bpc[m] = "returned"

\* C4: messages are numbered in the order they are posted by the one producer
\* (hook invocations of one thread, datagrams of one socket).  A later message's
\* broadcast does not run before an earlier posted one's, and for a connection
\* that is a target of both, the later send does not run before the earlier.
C4_PostedOrderKept ==
    \A m1, m2 \in Msg : m1 < m2 =>
        /\ Called(m2) => bpc[m1] \notin {"posted", "task"}
        /\ \A c \in Conn :
              (sendSt[m1][c] # "none" /\ sendSt[m2][c] \notin {"none", "queued"})
                  => sendSt[m1][c] # "queued"
        /\ \A c \in Conn : \A i, j \in 1..Len(wire[c]) :
              (wire[c][i] = Envelope(m1) /\ wire[c][j] = Envelope(m2)) => i < j

\* C4's case: both messages were sent to one connection.
C4_Witness ==
    \E c \in Conn : wire[c] = <<Envelope(1), Envelope(2)>>

\* C3: every broadcast that was posted runs, and every send it has dispatched
\* runs, whatever the other sends do: a send to a stalled connection that never
\* completes holds back neither the other sends of its broadcast nor the later
\* broadcasts and their sends.
C3_StalledClientDelaysNoOne ==
    []<>(\A m \in Msg :
            /\ bpc[m] \notin {"posted", "task"}
            /\ \A c \in Conn : sendSt[m][c] # "queued")

\* C3's case: the send of the first broadcast to one connection is stalled, the
\* other connection has had that broadcast and the next one.
C3_Witness ==
    \E c, d \in Conn :
        /\ c # d
        /\ sendSt[1][c] = "draining"
        /\ sendSt[1][d] = "ok"
        /\ sendSt[2][d] = "ok"
        /\ wire[d] = <<Envelope(1), Envelope(2)>>

\* C5: a hook invocation that is at its posting step reaches the end of the
\* original callback, whatever the loop and the clients do.
C5_PostReturnsToProducer ==
    []<>(hookPc \notin {"post", "call"})

\* C5's case: the hook is back from the original callback while the broadcast it
\* posted has not started, or waits for a send that does not complete.
C5_Witness ==
    /\ hookPc = "returned"
    /\ nextMsg > 0
    /\ \/ bpc[nextMsg] = "posted"
       \/ bpc[nextMsg] = "gather" /\ \E c \in Conn : sendSt[nextMsg][c] = "draining"

\* C6: while the loop is not running, the hook's posting step queues nothing on
\* the loop.
C6_PostIsNoOpWhenNotRunning ==
    [][(hookPc = "post" /\ hookPc' = "call" /\ ~Running) => ready' = ready]_vars

\* C7: a hook invocation that has ended has called the original callback exactly
\* once, and none ends by raising.
C7_OriginalAlwaysCalled ==
    /\ hookPc # "raised"
    /\ hookPc = "returned" => origCalls = 1

\* C8: once a call of terminate has returned, no envelope is written to any
\* connection.
C8_NoSendAfterStop ==
    [][stops >= 1 => wire' = wire]_vars

\* C9: once terminate has begun no connection is accepted or registered, and
\* once it has returned the listening socket is closed.
C9_ListenerClosedByStop ==
    /\ [](stops >= 1 => ~listening)
    /\ [][(termPc = "join" \/ stops >= 1) =>
             (clients' \subseteq clients /\ \A c \in Conn : conn[c] = "unborn" => conn'[c] = "unborn")]_vars

\* C10: at the step that ends terminate, every connection that is registered has
\* been closed and the registry is empty.
C10_StopClosesEveryClient ==
    [][(termPc = "join" /\ termPc' = "idle") =>
          (clients' = {} /\ \A c \in clients : conn'[c] = "closed")]_vars

\* C12: a call of terminate made while the server is not running (its thread
\* has not created the loop yet, or has ended) queues nothing on the loop and
\* changes no state of the thread, the loop or the registry.
C12_StopIsNoOpWhenNotRunning ==
    [][(termPc = "idle" /\ (termPc' = "join" \/ stops' = stops + 1) /\ (~loop \/ thr = "dead"))
          => UNCHANGED <<threadVars, loopVars, connVars>>]_vars

\* C18: a server thread whose bind fails ends without a further exception, has
\* never listened and has registered no client.
C18_BindErrorEndsCleanly ==
    [][(thr \in {"new", "binding"} /\ thr' = "dead")
          => (~threadExc' /\ ~listening' /\ clients' = {})]_vars

C15_RegistryIffHandlerOpen ==
    /\ [](\A c \in Conn : c \in clients <=> hnd[c] \in {"reading", "woken"})
    /\ [][clients' # clients =>
            \E c \in Conn :
                \/ /\ clients' = clients \cup {c}
                   /\ c \notin clients
                   /\ hnd[c] = "none" /\ hnd'[c] = "reading"
                \/ /\ clients' = clients \ {c}
                   /\ c \in clients
                   /\ hnd[c] = "woken" /\ hnd'[c] = "done"]_vars

\* C15's case: one connection came and went, another is registered.
C15_Witness ==
    \E c, d \in Conn :
        /\ hnd[c] = "done"
        /\ hnd[d] = "reading"
        /\ clients = {d}

\* C14: a connection to which a send has failed is closed, and it leaves the
\* registry: from some point on it is in no later snapshot.
C14_FailedSendLeavesRegistry ==
    /\ [](\A c \in Conn : (\E m \in Msg : sendSt[m][c] = "exc") => conn[c] = "closed")
    /\ []<>(\A c \in Conn : (\E m \in Msg : sendSt[m][c] = "exc") => c \notin clients)

\* C14's case: the send of the first message to a connection failed while it was
\* registered; it is unregistered, and the snapshot of the next broadcast is
\* taken without it.
C14_Witness ==
    \E c \in Conn :
        /\ sendSt[1][c] = "exc"
        /\ c \in regAt[1]
        /\ c \notin clients
        /\ Called(2)
        /\ c \notin regAt[2]
        /\ regAt[2] # {}

\* C16: the thread that runs the speech hook never reads or writes the
\* registry.
C16_RegistryConfinedToLoop ==
    [][~HookReadsRegistry]_vars

\* C17: terminate asks for the stop by queueing loop.stop on the loop (it does
\* not stop the loop itself), its wait for the thread can always end, and when
\* it ends while the thread is still alive that has been reported.
C17_StopReturnsAndReports ==
    /\ [](termPc = "join" => ENABLED terminate_join)
    /\ [][(termPc = "idle" /\ termPc' = "join")
            => (ready' = Append(ready, Cb("stop", 0, 0)) /\ UNCHANGED <<threadVars, ntodo>>)]_vars
    /\ [][(termPc = "join" /\ termPc' = "idle")
            => (stops' = stops + 1 /\ (thr # "dead" => reported'))]_vars

\* C17's case: terminate has returned while the server thread is still alive,
\* and that was reported.
C17_Witness ==
    /\ stops >= 1
    /\ termPc = "idle"
    /\ thr \in {"forever", "finally", "wait_closed"}
    /\ reported

\* C19: once terminate has queued loop.stop, the server thread ends.
C19_ThreadEndsAfterStop ==
    (termPc = "join") ~> (thr = "dead")

\* C11: while there is one plugin instance, at most one server thread is alive
\* (and with it at most one loop that a thread runs and one listening socket),
\* and start_server starts a thread only when the thread it started last is not
\* alive.
C11_StartIsIdempotent ==
    /\ [](inst = 1 => LiveThreads <= 1)
    /\ [][(starts' # starts /\ inst' = inst) => ~is_alive(server_thread)]_vars

\* C11's case: the one instance has started a second thread, after its first
\* one had ended; that thread serves, and start_server finds it alive.
C11_Witness ==
    /\ inst = 1
    /\ starts = 2
    /\ thr = "forever"
    /\ listening
    /\ is_alive(server_thread)
    /\ LiveThreads = 1

\* C20: once a new instance has been constructed while the earlier one's thread
\* holds the port, no hook invocation of the new instance queues anything on the
\* earlier instance's loop, and no envelope of a message of the new instance is
\* written to a connection, all of which the earlier instance accepted.
C20_NothingCarriedOver ==
    [][(inst > 1 /\ thr2 # "none") =>
          /\ (hookPc = "post" /\ hookPc' = "call" /\ nextMsg > oldMsgs) => ready' = ready
          /\ \A m \in Msg : \A c \in Conn :
                m > oldMsgs => Count(Envelope(m), wire'[c]) = Count(Envelope(m), wire[c])]_vars

====
